---- MODULE Spec2Model ----
(***************************************************************************)
(* Model of loan_amortization_app.py: the amortization schedule built when *)
(* "Generate Amortization Schedule" is pressed, the ledger rows and cell   *)
(* formulas written to the worksheet, and the worksheet as the user later  *)
(* fills in the payment cells (the formulas are then evaluated the way the *)
(* spreadsheet engine evaluates them).                                     *)
(*                                                                         *)
(* Numbers.  Python floats are modelled as decimal fixed-point numbers:    *)
(* an amount x is the integer x * Scale.  + and - are exact, * and / round *)
(* to the nearest unit (FMul, FDiv, FDivInt), so as in the program an      *)
(* amount carries a representation error far below one cent, and round(x,  *)
(* 2) (Round2) is a real rounding step.  Day counts, row numbers and       *)
(* period numbers are plain integers.  On every input explored here the    *)
(* schedule of the model equals, cent for cent, the one the program builds.*)
(***************************************************************************)
EXTENDS Integers, Sequences, FiniteSets, TLC

\* ------------------------------------------------------------ bounds
\* The form accepts whole years from 1 up; the model explores up to these.
MaxTermYears == 2
MaxAmortYears == 2
\* The user fills in payment cells of the first MaxUserRows ledger rows.
MaxUserRows == 2
\* ... and makes at most MaxEntries entries in all (overwriting is free).
MaxEntries == 2

\* ------------------------------------------------------------ number format
\* Limb of the multi-precision product, and units per dollar of the
\* fixed-point representation (10^-7 dollar).
Limb == 100 * 100
Scale == (Limb * Limb) \div 10

\* ------------------------------------------------------------ layout
PARAM_ROWS == 5
HEADER_ROW == PARAM_ROWS + 1
DATA_START_ROW == HEADER_ROW + 1

HEADERS ==
    << "Payment #", "Due Date", "Scheduled Payment", "Scheduled Interest",
       "Scheduled Principal", "Extra Payment Made", "Actual Payment Date",
       "Actual Payment Made", "Late Fee", "Total Payment Due",
       "Remaining Balance", "Underpayment Flag" >>

\* openpyxl.utils.get_column_letter, for the columns a 12-header sheet has.
get_column_letter(idx) ==
    << "A", "B", "C", "D", "E", "F", "G", "H", "I", "J", "K", "L" >>[idx]

build_col_map(headers) ==
    [ name \in { headers[k] : k \in 1..Len(headers) } |->
        get_column_letter(CHOOSE k \in 1..Len(headers) : headers[k] = name) ]

\* ------------------------------------------------------------ float arithmetic
\* a / n for a float a and a Python int n, rounded to the nearest unit.
FDivInt(a, n) == (a + n \div 2) \div n

\* a * b for floats a, b >= 0: the exact product a*b/Scale rounded to the
\* nearest unit.  The product is formed limb by limb (a = a2*Limb^2 + a1*Limb
\* + a0), so no intermediate value exceeds a machine integer.
FMul(a, b) ==
    LET a0 == a % Limb
        a1 == (a \div Limb) % Limb
        a2 == a \div (Limb * Limb)
        b0 == b % Limb
        b1 == (b \div Limb) % Limb
        b2 == b \div (Limb * Limb)
        c0 == a0 * b0
        c1 == a0 * b1 + a1 * b0
        c2 == a0 * b2 + a1 * b1 + a2 * b0
        c3 == a1 * b2 + a2 * b1
        c4 == a2 * b2
        \* a*b = hi * Limb^2 + lo with lo < 2 * Limb^2, and Scale = Limb^2 / 10
        hi == c4 * Limb * Limb + c3 * Limb + c2 + c1 \div Limb
        lo == (c1 % Limb) * Limb + c0
        t  == 10 * lo
    IN  10 * hi + (t + (Limb * Limb) \div 2) \div (Limb * Limb)

\* a / b for floats a >= 0, b > 0: the exact quotient a*Scale/b rounded to the
\* nearest unit, by long division (Scale = 100 * 100 * 100 * 10).
FDiv(a, b) ==
    LET q0 == a \div b
        r0 == a % b
        q1 == (100 * r0) \div b
        r1 == (100 * r0) % b
        q2 == (100 * r1) \div b
        r2 == (100 * r1) % b
        q3 == (100 * r2) \div b
        r3 == (100 * r2) % b
        q4 == (10 * r3) \div b
        r4 == (10 * r3) % b
    IN  q0 * Scale + q1 * 100000 + q2 * 1000 + q3 * 10 + q4
        + (IF 2 * r4 >= b THEN 1 ELSE 0)

\* base ** n for a float base and a Python int n >= 0.
RECURSIVE FPow(_, _)
FPow(base, n) ==
    IF n = 0 THEN Scale
    ELSE IF n % 2 = 0
         THEN LET h == FPow(base, n \div 2) IN FMul(h, h)
         ELSE FMul(FPow(base, n - 1), base)

\* round(x, 2): to the nearest cent, ties to the even cent.
Round2(x) ==
    LET cent == Scale \div 100
        q    == x \div cent
        r    == x % cent
    IN  IF 2 * r < cent THEN q * cent
        ELSE IF 2 * r > cent THEN (q + 1) * cent
        ELSE IF q % 2 = 0 THEN q * cent ELSE (q + 1) * cent

\* ------------------------------------------------------------ dates
IsLeap(y) == (y % 4 = 0 /\ y % 100 # 0) \/ y % 400 = 0

DaysInMonth(y, mo) ==
    IF mo = 2 THEN (IF IsLeap(y) THEN 29 ELSE 28)
    ELSE IF mo \in {4, 6, 9, 11} THEN 30 ELSE 31

\* start_date + pd.DateOffset(months=k): same day of month, clamped to the
\* end of the target month.
AddMonths(d, k) ==
    LET t  == (d.mo - 1) + k
        y  == d.y + t \div 12
        mo == (t % 12) + 1
        dm == DaysInMonth(y, mo)
    IN  [y |-> y, mo |-> mo, d |-> IF d.d > dm THEN dm ELSE d.d]

RECURSIVE DaysBeforeMonth(_, _)
DaysBeforeMonth(y, mo) ==
    IF mo = 1 THEN 0 ELSE DaysBeforeMonth(y, mo - 1) + DaysInMonth(y, mo - 1)

\* The serial number the workbook stores for a date (days since 1899-12-30).
DateSerial(d) ==
    LET y1 == d.y - 1
    IN  365 * y1 + y1 \div 4 - y1 \div 100 + y1 \div 400
        + DaysBeforeMonth(d.y, d.mo) + d.d - 693594

\* ------------------------------------------------------------ inputs
\* Values of the number_input and date_input widgets explored by the model.
LoanAmounts == { 0, 75 * Scale }
InterestRates == { 0, (75 * Scale) \div 10 }
StartDates == { [y |-> 2024, mo |-> 1, d |-> 31] }

\* ------------------------------------------------------------ state
VARIABLES
    pc,                 \* "idle", "loop", "populate", "done"
    loan_amount, interest_rate, term_years, amortization_years, start_date,
    monthly_rate, term_months, amort_months, monthly_payment,
    balance,            \* running balance of the schedule loop
    m,                  \* loop variable of the schedule loop
    schedule,           \* list of period records
    history,            \* history variable: balance at the end of each iteration
    i,                  \* loop variable of the row loop (0-based)
    ws                  \* worksheet: cell name -> content

vars == << pc, loan_amount, interest_rate, term_years, amortization_years,
           start_date, monthly_rate, term_months, amort_months,
           monthly_payment, balance, m, schedule, history, i, ws >>

Init ==
    /\ pc = "idle"
    /\ loan_amount = 0
    /\ interest_rate = 0
    /\ term_years = 1
    /\ amortization_years = 1
    /\ start_date = [y |-> 2024, mo |-> 1, d |-> 31]
    /\ monthly_rate = 0
    /\ term_months = 0
    /\ amort_months = 0
    /\ monthly_payment = 0
    /\ balance = 0
    /\ m = 0
    /\ schedule = << >>
    /\ history = << >>
    /\ i = 0
    /\ ws = << >>

\* ------------------------------------------------------------ schedule
\* The monthly payment: even split at zero rate, else the annuity formula.
MonthlyPayment(la, mr, am) ==
    IF mr = 0
    THEN FDivInt(la, am)
    ELSE LET pw == FPow(Scale + mr, am)
         IN  FDiv(FMul(la, FMul(mr, pw)), pw - Scale)

\* The button handler up to the start of the schedule loop.
Generate(la, ir, ty, ay, sd) ==
    /\ pc = "idle"
    /\ loan_amount' = la
    /\ interest_rate' = ir
    /\ term_years' = ty
    /\ amortization_years' = ay
    /\ start_date' = sd
    /\ monthly_rate' = FDivInt(FDivInt(ir, 100), 12)
    /\ term_months' = ty * 12
    /\ amort_months' = ay * 12
    /\ monthly_payment' = MonthlyPayment(la, monthly_rate', amort_months')
    /\ balance' = la
    /\ schedule' = << >>
    /\ history' = << >>
    /\ m' = 1
    /\ pc' = "loop"
    /\ UNCHANGED << i, ws >>

PeriodRecord(k, sd, pay, ia, pa) ==
    [ h \in { HEADERS[c] : c \in 1..5 } |->
        CASE h = "Payment #" -> k
          [] h = "Due Date" -> AddMonths(sd, k)
          [] h = "Scheduled Payment" -> Round2(pay)
          [] h = "Scheduled Interest" -> Round2(ia)
          [] h = "Scheduled Principal" -> Round2(pa) ]

\* One iteration of the schedule loop, for period m.
interest_amt == FMul(balance, monthly_rate)
principal_amt == monthly_payment - interest_amt

\* Variant: the overshoot is not taken back out of the period's principal.
AdjustedPrincipal_Unadjusted(pa, bal) == pa

\* if balance < 0: principal_amt += balance; balance = 0
AdjustedPrincipal(pa, bal) == IF bal < 0 THEN pa + bal ELSE pa

\* Variant: a negative balance is kept as it is.
ClampedBalance_Unclamped(bal) == bal

ClampedBalance(bal) == IF bal < 0 THEN 0 ELSE bal

\* if balance <= 0: break
LoopBreaks(bal) == bal <= 0

LoopIter ==
    /\ pc = "loop"
    /\ LET bal1 == balance - principal_amt
           bal2 == ClampedBalance(bal1)
       IN  /\ balance' = bal2
           /\ history' = Append(history, bal2)
           /\ schedule' = Append(schedule,
                  PeriodRecord(m, start_date, monthly_payment, interest_amt,
                               AdjustedPrincipal(principal_amt, bal1)))
           /\ IF LoopBreaks(bal2) \/ m = term_months
              THEN /\ pc' = "populate"
                   /\ m' = m
                   /\ i' = 0
              ELSE /\ pc' = "loop"
                   /\ m' = m + 1
                   /\ i' = i
    /\ UNCHANGED << loan_amount, interest_rate, term_years, amortization_years,
                    start_date, monthly_rate, term_months, amort_months,
                    monthly_payment, ws >>

\* ------------------------------------------------------------ formulas
\* A formula is kept as its expression tree; a cell reference is the pair
\* <<column letter, row>>.  Amount literals are in fixed-point units, day
\* counts are plain integers.
Num(n) == [op |-> "num", n |-> n]
Str(s) == [op |-> "str", s |-> s]
Ref(col, r) == [op |-> "ref", cell |-> << col, r >>]
Add(x, y) == [op |-> "add", a |-> x, b |-> y]
Sub(x, y) == [op |-> "sub", a |-> x, b |-> y]
Lt(x, y) == [op |-> "lt", a |-> x, b |-> y]
Gt(x, y) == [op |-> "gt", a |-> x, b |-> y]
Min(x, y) == [op |-> "min", a |-> x, b |-> y]
Max(x, y) == [op |-> "max", a |-> x, b |-> y]
IsNumber(x) == [op |-> "isnumber", a |-> x]
And(args) == [op |-> "and", args |-> args]
If(c, x, y) == [op |-> "if", c |-> c, a |-> x, b |-> y]

\* What a cell holds: a plain value, or a formula (a string starting with "=").
Value(e) == [formula |-> FALSE, e |-> e]
Formula(e) == [formula |-> TRUE, e |-> e]

col_map == build_col_map(HEADERS)

\* Variant: a grace period of 9 days.
LateFeeFormula_ShortGrace(r) ==
    LET lad == col_map["Actual Payment Date"]
        ld  == col_map["Due Date"]
    IN  If(And(<< IsNumber(Ref(lad, r)), IsNumber(Ref(ld, r)),
                  Gt(Ref(lad, r), Add(Ref(ld, r), Num(9))) >>),
           Num(35 * Scale), Num(0))

\* =IF(AND(ISNUMBER(G{r}),ISNUMBER(B{r}),G{r}>B{r}+10),35,0)
LateFeeFormula(r) ==
    LET lad == col_map["Actual Payment Date"]
        ld  == col_map["Due Date"]
    IN  If(And(<< IsNumber(Ref(lad, r)), IsNumber(Ref(ld, r)),
                  Gt(Ref(lad, r), Add(Ref(ld, r), Num(10))) >>),
           Num(35 * Scale), Num(0))

\* =E{r}+D{r}+I{r}
TotalPaymentDueFormula(r) ==
    LET lsp == col_map["Scheduled Principal"]
        lsi == col_map["Scheduled Interest"]
        ll  == col_map["Late Fee"]
    IN  Add(Add(Ref(lsp, r), Ref(lsi, r)), Ref(ll, r))

\* Variant: every row starts from the principal.
prev_ref_Principal(idx, r, la) == Num(la)

\* The balance the Remaining Balance formula of row index idx starts from.
prev_ref(idx, r, la) ==
    IF idx = 0 THEN Num(la) ELSE Ref(col_map["Remaining Balance"], r - 1)

\* =IF(AND(ISNUMBER(H{r}),ISNUMBER(I{r})),
\*     {prev_ref} - MIN(E{r}+F{r},MAX(0,H{r}-D{r}-I{r})), "")
RemainingBalanceFormula(idx, r, la) ==
    LET lsp == col_map["Scheduled Principal"]
        lsi == col_map["Scheduled Interest"]
        le  == col_map["Extra Payment Made"]
        lap == col_map["Actual Payment Made"]
        ll  == col_map["Late Fee"]
    IN  If(And(<< IsNumber(Ref(lap, r)), IsNumber(Ref(ll, r)) >>),
           Sub(prev_ref(idx, r, la),
               Min(Add(Ref(lsp, r), Ref(le, r)),
                   Max(Num(0), Sub(Sub(Ref(lap, r), Ref(lsi, r)), Ref(ll, r))))),
           Str(""))

\* Variant: the payment is compared with the Scheduled Payment column.
UnderpaymentFlagFormula_Scheduled(r) ==
    LET lap == col_map["Actual Payment Made"]
        lt  == col_map["Scheduled Payment"]
    IN  If(And(<< IsNumber(Ref(lap, r)), Lt(Ref(lap, r), Ref(lt, r)) >>),
           Str("UNDERPAID"), Str(""))

\* =IF(AND(ISNUMBER(H{r}),H{r}<J{r}),"UNDERPAID","")
UnderpaymentFlagFormula(r) ==
    LET lap == col_map["Actual Payment Made"]
        lt  == col_map["Total Payment Due"]
    IN  If(And(<< IsNumber(Ref(lap, r)), Lt(Ref(lap, r), Ref(lt, r)) >>),
           Str("UNDERPAID"), Str(""))

\* Variant: the override goes to the last row of the schedule.
IsFinalTerm_LastRow(idx, tm) == idx = Len(schedule) - 1

\* The row index that gets the balloon override.
IsFinalTerm(idx, tm) == idx = tm - 1

\* The Scheduled Payment cell: ={standard}+{prev_balance} on the final term,
\* the plain value otherwise.
ScheduledPaymentCell(idx, row, tm, bal) ==
    IF IsFinalTerm(idx, tm)
    THEN Formula(Add(Num(row["Scheduled Payment"]), Num(bal)))
    ELSE Value(Num(row["Scheduled Payment"]))

\* The cells written for the schedule row of index idx (sheet row r).
RowCells(idx, row, tm, bal, la) ==
    LET r == DATA_START_ROW + idx
    IN  [ c \in { << get_column_letter(k), r >> : k \in {1, 2, 3, 4, 5, 9, 10, 11, 12} } |->
            CASE c[1] = get_column_letter(1) -> Value(Num(row["Payment #"]))
              [] c[1] = get_column_letter(2) -> Value(Num(DateSerial(row["Due Date"])))
              [] c[1] = get_column_letter(3) -> ScheduledPaymentCell(idx, row, tm, bal)
              [] c[1] = get_column_letter(4) -> Value(Num(row["Scheduled Interest"]))
              [] c[1] = get_column_letter(5) -> Value(Num(row["Scheduled Principal"]))
              [] c[1] = col_map["Late Fee"] -> Formula(LateFeeFormula(r))
              [] c[1] = col_map["Total Payment Due"] -> Formula(TotalPaymentDueFormula(r))
              [] c[1] = col_map["Remaining Balance"] ->
                     Formula(RemainingBalanceFormula(idx, r, la))
              [] c[1] = col_map["Underpayment Flag"] -> Formula(UnderpaymentFlagFormula(r)) ]

\* sheet with the cells of new written over it.
Write(sheet, new) ==
    [ c \in DOMAIN sheet \cup DOMAIN new |->
        IF c \in DOMAIN new THEN new[c] ELSE sheet[c] ]

\* One iteration of the row loop, for schedule[i] (0-based i).
PopulateRow ==
    /\ pc = "populate"
    /\ i < Len(schedule)
    /\ ws' = Write(ws, RowCells(i, schedule[i + 1], term_months, balance, loan_amount))
    /\ i' = i + 1
    /\ pc' = IF i + 1 < Len(schedule) THEN "populate" ELSE "done"
    /\ UNCHANGED << loan_amount, interest_rate, term_years, amortization_years,
                    start_date, monthly_rate, term_months, amort_months,
                    monthly_payment, balance, m, schedule, history >>

\* ------------------------------------------------------------ spreadsheet engine
\* Values a cell or an expression evaluates to.
Blank == [t |-> "blank"]
ErrV == [t |-> "err"]
NumV(n) == [t |-> "num", n |-> n]
StrV(s) == [t |-> "str", s |-> s]
BoolV(b) == [t |-> "bool", b |-> b]

\* Operand of + and -: an empty cell counts as 0, text that is no number
\* (the empty string included) and errors give an error.
Coerce(v) ==
    CASE v.t = "num" -> v
      [] v.t = "blank" -> NumV(0)
      [] v.t = "str" -> ErrV
      [] v.t = "err" -> ErrV

\* x < y in the engine's order: numbers by value (an empty cell as 0), and any
\* number before any text.  The ledger compares a cell with a number only.
Less(x, y) ==
    CASE x.t \in {"num", "blank"} /\ y.t \in {"num", "blank"} ->
             (IF x.t = "num" THEN x.n ELSE 0) < (IF y.t = "num" THEN y.n ELSE 0)
      [] x.t = "num" /\ y.t = "str" -> TRUE
      [] x.t = "str" /\ y.t = "num" -> FALSE

\* The value of expression e on the sheet; a chain of more than fuel
\* references is a circular reference.
RECURSIVE Eval(_, _, _)
Eval(sheet, e, fuel) ==
    CASE e.op = "num" -> NumV(e.n)
      [] e.op = "str" -> StrV(e.s)
      [] e.op = "ref" ->
             IF e.cell \notin DOMAIN sheet THEN Blank
             ELSE IF fuel = 0 THEN ErrV
             ELSE Eval(sheet, sheet[e.cell].e, fuel - 1)
      [] e.op \in {"add", "sub"} ->
             LET x == Coerce(Eval(sheet, e.a, fuel))
                 y == Coerce(Eval(sheet, e.b, fuel))
             IN  IF x.t = "err" \/ y.t = "err" THEN ErrV
                 ELSE NumV(IF e.op = "add" THEN x.n + y.n ELSE x.n - y.n)
      [] e.op \in {"lt", "gt"} ->
             LET x == Eval(sheet, e.a, fuel)
                 y == Eval(sheet, e.b, fuel)
             IN  IF x.t = "err" \/ y.t = "err" THEN ErrV
                 ELSE BoolV(IF e.op = "lt" THEN Less(x, y) ELSE Less(y, x))
      [] e.op \in {"min", "max"} ->
             LET x == Eval(sheet, e.a, fuel)
                 y == Eval(sheet, e.b, fuel)
             IN  IF x.t # "num" \/ y.t # "num" THEN ErrV
                 ELSE NumV(IF (e.op = "min") = (x.n < y.n) THEN x.n ELSE y.n)
      [] e.op = "isnumber" -> BoolV(Eval(sheet, e.a, fuel).t = "num")
      [] e.op = "and" ->
             LET vs == [ k \in 1..Len(e.args) |-> Eval(sheet, e.args[k], fuel) ]
             IN  IF \E k \in 1..Len(e.args) : vs[k].t = "err" THEN ErrV
                 ELSE BoolV(\A k \in 1..Len(e.args) : vs[k].b)
      [] e.op = "if" ->
             LET c == Eval(sheet, e.c, fuel)
             IN  IF c.t = "err" THEN ErrV
                 ELSE IF c.b THEN Eval(sheet, e.a, fuel)
                 ELSE Eval(sheet, e.b, fuel)

\* The displayed value of the cell in column col of sheet row r.
CellValue(sheet, col, r) ==
    Eval(sheet, Ref(col, r), Cardinality(DOMAIN sheet) + 1)

\* ------------------------------------------------------------ the user
\* The 1-based ledger rows the user fills in.
UserRows == 1..(IF Len(schedule) < MaxUserRows THEN Len(schedule) ELSE MaxUserRows)

SheetRow(k) == DATA_START_ROW + k - 1

\* Amounts and dates the user may type into row k.
ExtraChoices == { Num(1 * Scale) }
DateChoices(k) ==
    { Num(DateSerial(schedule[k]["Due Date"]) + d) : d \in {10, 11} }
PaymentChoices(k) ==
    { Num(schedule[k]["Scheduled Payment"]), Num(1 * Scale), Str("n/a") }

UserColumns ==
    { col_map[h] : h \in {"Extra Payment Made", "Actual Payment Date",
                          "Actual Payment Made"} }
Entries == Cardinality({ c \in DOMAIN ws : c[1] \in UserColumns })

UserEnter(header, k, e) ==
    /\ pc = "done"
    /\ << col_map[header], SheetRow(k) >> \in DOMAIN ws \/ Entries < MaxEntries
    /\ ws' = Write(ws, [ c \in { << col_map[header], SheetRow(k) >> } |-> Value(e) ])
    /\ UNCHANGED << pc, loan_amount, interest_rate, term_years, amortization_years,
                    start_date, monthly_rate, term_months, amort_months,
                    monthly_payment, balance, m, schedule, history, i >>

EnterExtraPayment == \E k \in UserRows : \E e \in ExtraChoices :
    UserEnter("Extra Payment Made", k, e)
EnterPaymentDate == \E k \in UserRows : \E e \in DateChoices(k) :
    UserEnter("Actual Payment Date", k, e)
EnterPayment == \E k \in UserRows : \E e \in PaymentChoices(k) :
    UserEnter("Actual Payment Made", k, e)

Next ==
    \/ \E la \in LoanAmounts, ir \in InterestRates,
          ty \in 1..MaxTermYears, ay \in 1..MaxAmortYears, sd \in StartDates :
          Generate(la, ir, ty, ay, sd)
    \/ LoopIter
    \/ PopulateRow
    \/ EnterExtraPayment
    \/ EnterPaymentDate
    \/ EnterPayment

Spec == Init /\ [][Next]_vars

\* ------------------------------------------------------------ reading the state
Money(cents) == cents * (Scale \div 100)

\* Number of ledger rows written so far.
Populated == IF pc = "done" THEN Len(schedule) ELSE IF pc = "populate" THEN i ELSE 0
Finished == pc \in {"populate", "done"}

\* Balance before period k.
BalanceBefore(k) == IF k = 1 THEN loan_amount ELSE history[k - 1]
\* Period k is one where the balance would go negative.
WouldOvershoot(k) ==
    BalanceBefore(k) - (monthly_payment - FMul(BalanceBefore(k), monthly_rate)) < 0

RECURSIVE SumPrincipal(_)
SumPrincipal(k) ==
    IF k = 0 THEN 0 ELSE schedule[k]["Scheduled Principal"] + SumPrincipal(k - 1)

Abs(x) == IF x < 0 THEN 0 - x ELSE x

\* The cell of ledger row k under a header, and what the user typed there.
CellAt(header, k) == << col_map[header], SheetRow(k) >>
Shown(header, k) == CellValue(ws, col_map[header], SheetRow(k))
Typed(header, k) == CellAt(header, k) \in DOMAIN ws
TypedNumber(header, k) == Typed(header, k) /\ ws[CellAt(header, k)].e.op = "num"
TypedValue(header, k) == ws[CellAt(header, k)].e.n
IsNumVal(v, n) == v.t = "num" /\ v.n = n
IsStrVal(v, str) == v.t = "str" /\ v.s = str

\* The late fee, total due and principal paid of row k as the specification
\* states them, from the schedule and the user's entries.
DueSerial(k) == DateSerial(schedule[k]["Due Date"])
FeeDue(k) ==
    IF TypedNumber("Actual Payment Date", k)
       /\ TypedValue("Actual Payment Date", k) > DueSerial(k) + 10
    THEN Money(3500) ELSE 0
TotalDue(k) ==
    schedule[k]["Scheduled Principal"] + schedule[k]["Scheduled Interest"] + FeeDue(k)
ExtraPaid(k) ==
    IF TypedNumber("Extra Payment Made", k)
    THEN TypedValue("Extra Payment Made", k) ELSE 0
PrincipalPaid(k) ==
    LET cap  == schedule[k]["Scheduled Principal"] + ExtraPaid(k)
        cash == TypedValue("Actual Payment Made", k)
                    - schedule[k]["Scheduled Interest"] - FeeDue(k)
        paid == IF cash < 0 THEN 0 ELSE cash
    IN  IF cap < paid THEN cap ELSE paid

\* All references of an expression.
RECURSIVE Refs(_)
Refs(e) ==
    CASE e.op \in {"num", "str"} -> {}
      [] e.op = "ref" -> { e.cell }
      [] e.op = "isnumber" -> Refs(e.a)
      [] e.op = "and" -> UNION { Refs(e.args[k]) : k \in 1..Len(e.args) }
      [] e.op = "if" -> Refs(e.c) \cup Refs(e.a) \cup Refs(e.b)
      [] OTHER -> Refs(e.a) \cup Refs(e.b)
BalanceRefs(k) ==
    { c \in Refs(ws[CellAt("Remaining Balance", k)].e) :
        c[1] = col_map["Remaining Balance"] }

\* ------------------------------------------------------------ claims

\* C1 as stated: the schedule has at most termMonths periods, the running
\* balance is >= 0 after every period, and it is exactly 0 after the last
\* emitted period.
C1_BalanceZeroAtEnd ==
    /\ Len(schedule) <= term_months
    /\ \A k \in 1..Len(history) : history[k] >= 0
    /\ Finished => history[Len(schedule)] = 0

\* C1 as amended: the schedule has at most termMonths periods, the running
\* balance is >= 0 after every period, and it is exactly 0 after the last
\* emitted period whenever the loop stopped before termMonths periods.
C1_BalanceZeroOnEarlyStop ==
    /\ Len(schedule) <= term_months
    /\ Len(history) = Len(schedule)
    /\ \A k \in 1..Len(history) : history[k] >= 0
    /\ balance >= 0
    /\ Finished /\ Len(schedule) < term_months => history[Len(schedule)] = 0

\* C1 witness: a loan of a positive amount whose schedule stopped early.
C1_Witness ==
    /\ Finished
    /\ loan_amount > 0
    /\ Len(schedule) < term_months
    /\ history[Len(schedule)] = 0

\* C2: the Scheduled Payment cell is the balloon formula for the row whose
\* 1-based position equals termMonths and for no other row; every other row
\* carries the plain rounded scheduled payment; so at most one row carries
\* the override, and none when the schedule has fewer than termMonths rows.
C2_OverrideOnlyAtTerm ==
    /\ \A k \in 1..Populated :
          LET c == ws[CellAt("Scheduled Payment", k)]
          IN  /\ c.formula <=> k = term_months
              /\ c.formula => c.e.op = "add"
              /\ ~c.formula => c.e = Num(schedule[k]["Scheduled Payment"])
    /\ Cardinality({ k \in 1..Populated :
                       ws[CellAt("Scheduled Payment", k)].formula }) <= 1
    /\ pc = "done" /\ Len(schedule) < term_months =>
          \A k \in 1..Populated : ~ws[CellAt("Scheduled Payment", k)].formula

\* C2 witness: a finished ledger of several rows whose last row, at position
\* termMonths, carries the override.
C2_Witness ==
    /\ pc = "done"
    /\ Len(schedule) = term_months
    /\ ws[CellAt("Scheduled Payment", term_months)].formula
    /\ ~ws[CellAt("Scheduled Payment", term_months - 1)].formula

\* C3: for the row at position termMonths the Scheduled Payment formula
\* evaluates to the rounded scheduled payment plus the balance remaining
\* after that period's principal has been applied (the running balance at
\* the end of the loop); on a loan that fully amortizes exactly at
\* termMonths (amortization period equal to the term) the added balance is 0.
C3_BalloonValue ==
    Populated >= term_months /\ term_months > 0 =>
        /\ IsNumVal(Shown("Scheduled Payment", term_months),
                    Round2(monthly_payment) + history[term_months])
        /\ history[term_months] = balance
        /\ amort_months = term_months =>
              IsNumVal(Shown("Scheduled Payment", term_months), Round2(monthly_payment))

\* C4: the Remaining Balance formula of row 1 starts from the original
\* principal and references no balance cell; that of every row k > 1
\* references exactly the Remaining Balance cell of row k-1; so every row
\* reaches the principal through the rows before it and no row references
\* itself or a later row.
C4_BalanceChain ==
    \A k \in 1..Populated :
        LET c == ws[CellAt("Remaining Balance", k)]
        IN  /\ c.formula
            /\ c.e.op = "if"
            /\ c.e.a.op = "sub"
            /\ IF k = 1
               THEN /\ BalanceRefs(k) = {}
                    /\ c.e.a.a = Num(loan_amount)
               ELSE /\ BalanceRefs(k) = { CellAt("Remaining Balance", k - 1) }
                    /\ c.e.a.a.op = "ref"
                    /\ c.e.a.a.cell = CellAt("Remaining Balance", k - 1)
            /\ \A b \in BalanceRefs(k) : b[2] < SheetRow(k) /\ b[2] >= DATA_START_ROW

\* C4 witness: a finished ledger with at least three rows.
C4_Witness ==
    /\ pc = "done"
    /\ Len(schedule) >= 3
    /\ BalanceRefs(3) = { CellAt("Remaining Balance", 2) }

\* C5: the sum of the rounded scheduledPrincipal over all periods equals the
\* principal minus the balance left at the end, to within one cent.
C5_PrincipalSumsToLoan ==
    Finished =>
        Abs(SumPrincipal(Len(schedule)) - (loan_amount - balance)) <= Money(1)

\* C6: the Remaining Balance of a row is numeric exactly when the row's actual
\* payment and late fee are numeric, and is the empty text otherwise; when
\* numeric it is the previous row's balance (the principal for row 1) minus
\* min(scheduledPrincipal + extra, max(0, payment - interest - late fee)),
\* whatever rows the user has filled in.
C6_RemainingBalance ==
    \A k \in 1..Populated :
        LET v == Shown("Remaining Balance", k)
        IN  IF TypedNumber("Actual Payment Made", k) /\ Shown("Late Fee", k).t = "num"
            THEN /\ v.t = "num"
                 /\ v.n = (IF k = 1 THEN loan_amount
                           ELSE Shown("Remaining Balance", k - 1).n) - PrincipalPaid(k)
            ELSE IsStrVal(v, "")

\* C7: the Underpayment Flag of a row is "UNDERPAID" exactly when the actual
\* payment is numeric and strictly less than scheduledPrincipal +
\* scheduledInterest + lateFee of the same row, and the empty text otherwise.
C7_UnderpaymentFlag ==
    \A k \in 1..Populated :
        /\ IsNumVal(Shown("Total Payment Due", k), TotalDue(k))
        /\ IF TypedNumber("Actual Payment Made", k)
              /\ TypedValue("Actual Payment Made", k) < TotalDue(k)
           THEN IsStrVal(Shown("Underpayment Flag", k), "UNDERPAID")
           ELSE IsStrVal(Shown("Underpayment Flag", k), "")

\* C7 witness: one row flagged for a payment below the total due and another
\* row, paid in full, not flagged.
C7_Witness ==
    /\ pc = "done"
    /\ \E k \in 1..Populated :
          /\ TypedNumber("Actual Payment Made", k)
          /\ TypedValue("Actual Payment Made", k) < TotalDue(k)
          /\ IsStrVal(Shown("Underpayment Flag", k), "UNDERPAID")
    /\ \E k \in 1..Populated :
          /\ TypedNumber("Actual Payment Made", k)
          /\ TypedValue("Actual Payment Made", k) >= TotalDue(k)
          /\ IsStrVal(Shown("Underpayment Flag", k), "")

\* C8: the Late Fee of a row is 35 when the actual payment date and the due
\* date are numeric and the actual date is more than 10 days after the due
\* date, and 0 otherwise: 0 for a payment exactly 10 days late and 0 for a row
\* with no actual payment date.
C8_LateFee ==
    \A k \in 1..Populated :
        /\ IsNumVal(Shown("Due Date", k), DueSerial(k))
        /\ IsNumVal(Shown("Late Fee", k), FeeDue(k))
        /\ ~Typed("Actual Payment Date", k) => IsNumVal(Shown("Late Fee", k), 0)
        /\ TypedNumber("Actual Payment Date", k)
             /\ TypedValue("Actual Payment Date", k) = DueSerial(k) + 10
             => IsNumVal(Shown("Late Fee", k), 0)
        /\ TypedNumber("Actual Payment Date", k)
             /\ TypedValue("Actual Payment Date", k) = DueSerial(k) + 11
             => IsNumVal(Shown("Late Fee", k), Money(3500))

\* C8 witness: one row paid 11 days late with a fee of 35 and another paid
\* exactly 10 days late with a fee of 0.
C8_Witness ==
    /\ pc = "done"
    /\ \E k \in 1..Populated :
          /\ TypedNumber("Actual Payment Date", k)
          /\ TypedValue("Actual Payment Date", k) = DueSerial(k) + 11
          /\ IsNumVal(Shown("Late Fee", k), Money(3500))
    /\ \E k \in 1..Populated :
          /\ TypedNumber("Actual Payment Date", k)
          /\ TypedValue("Actual Payment Date", k) = DueSerial(k) + 10
          /\ IsNumVal(Shown("Late Fee", k), 0)

\* C9: periods are numbered 1, 2, ... consecutively; the loop stops at the
\* first period after which the running balance is <= 0, so no period follows
\* one whose ending balance is 0 and the length is min(termMonths, periods
\* until the balance reaches zero); in the period where the balance would go
\* negative the balance is clamped to 0 and the period's principal is the
\* balance outstanding before the period.
C9_LoopStops ==
    /\ \A k \in 1..Len(schedule) : schedule[k]["Payment #"] = k
    /\ Len(history) = Len(schedule)
    /\ \A k \in 1..(Len(schedule) - 1) : history[k] > 0
    /\ Len(schedule) <= term_months
    /\ pc = "loop" => m = Len(schedule) + 1 /\ m <= term_months
    /\ Finished => Len(schedule) = term_months \/ history[Len(schedule)] <= 0
    /\ \A k \in 1..Len(schedule) :
          WouldOvershoot(k) =>
              /\ history[k] = 0
              /\ schedule[k]["Scheduled Principal"] = Round2(BalanceBefore(k))

\* C9 witness: a schedule that stopped before termMonths in a period that
\* would have overshot, its principal cut down to the balance outstanding.
C9_Witness ==
    /\ Finished
    /\ Len(schedule) < term_months
    /\ Len(schedule) > 1
    /\ WouldOvershoot(Len(schedule))
    /\ history[Len(schedule)] = 0
    /\ schedule[Len(schedule)]["Scheduled Principal"]
          < schedule[1]["Scheduled Principal"] - Money(100)

\* C10: on a row without the balloon override, a user who records an on-time
\* payment (late fee 0) equal to the row's Scheduled Payment is never flagged
\* "UNDERPAID".
C10_ScheduledPaymentNotFlagged ==
    \A k \in 1..Populated :
        /\ ~ws[CellAt("Scheduled Payment", k)].formula
        /\ TypedNumber("Actual Payment Made", k)
        /\ IsNumVal(Shown("Scheduled Payment", k), TypedValue("Actual Payment Made", k))
        /\ IsNumVal(Shown("Late Fee", k), 0)
        => ~IsStrVal(Shown("Underpayment Flag", k), "UNDERPAID")
====
